---- MODULE Spec2Model ----
(***************************************************************************)
(* claude-sync: the sync engine (internal/sync) over an abstract bucket.   *)
(*                                                                         *)
(* A path is a sequence: <<name>> is a file of the sync-path set, and      *)
(* <<name, t>> is the file name.conflict.<t> written next to it.  A bucket *)
(* key is a pair <<path, suffix>>; the engine writes the suffix ".age".    *)
(* A tree entry holds the bytes read through the path, its modification    *)
(* time, and whether the path itself is a symlink.                         *)
(* Instants are integers, ZeroTime is time.Time{}; one clock unit is the   *)
(* one-second resolution of the sidecar timestamp format.                  *)
(* FileState.Size and FileState.ModTime are written by UpdateFile and are  *)
(* never read by the engine; the model leaves them out.  LastSync,         *)
(* LastPush and LastPull are only ever tested with IsZero(); the model     *)
(* keeps that bit (TRUE = the instant has been set).                       *)
(* backups holds, per device, the directories ~/.claude.backup.<t> that    *)
(* the pull command has written.                                           *)
(***************************************************************************)
EXTENDS Integers, Sequences, FiniteSets, TLC

\* ---------------------------------------------------------------- bounds
MaxTime == 2
MaxEdits == 3

Devices == {"A", "B"}
\* config.SyncPaths: entries that are regular files, and files that live
\* below an entry that is a directory.
TopFiles == {"CLAUDE.md"}
DirFiles == {"agents/x"}
BasePaths == {<<n>> : n \in TopFiles \cup DirFiles}
\* The files a behaviour's users edit: one file of the sync-path set.
Workloads == {{p} : p \in BasePaths}
Data == {1, 2}

ZeroTime == 0
NoHash == 0

VARIABLES now, bucket, tree, st, scope, edits, last, backups

vars == <<now, bucket, tree, st, scope, edits, last, backups>>

\* ------------------------------------------------------------ map helpers
Put(f, k, v) == [x \in (DOMAIN f) \cup {k} |-> IF x = k THEN v ELSE f[x]]
Drop(f, k) == [x \in (DOMAIN f) \ {k} |-> f[x]]
EmptyMap == << >>

\* All enumerations of a finite set without repetition (Go map range order).
SeqsOf(S) == {s \in [1..Cardinality(S) -> S] : \A i, j \in 1..Cardinality(S) : s[i] = s[j] => i = j}

\* ---------------------------------------------------------------- crypto
\* Every device of this model was initialised with the same passphrase.
identity == [d \in Devices |-> 1]

Encrypt(d, data) == [rcpt |-> identity[d], plain |-> data]

Decrypt(d, c) == IF c.rcpt = identity[d] THEN [ok |-> TRUE, plain |-> c.plain] ELSE [ok |-> FALSE, plain |-> 0]

\* ----------------------------------------------------------------- state
Sha256(data) == 100 + data

HashFile(t, p) == IF p \in DOMAIN t THEN Sha256(t[p].data) ELSE NoHash

NewState == [files |-> EmptyMap, lastSync |-> FALSE, lastPush |-> FALSE, lastPull |-> FALSE]

\* UpdateFile that leaves a record that exists as it is.
UpdateFileOnce(files, p, hash) == IF p \in DOMAIN files THEN files ELSE Put(files, p, [hash |-> hash, uploaded |-> ZeroTime])

UpdateFile(files, p, hash) == Put(files, p, [hash |-> hash, uploaded |-> ZeroTime])

\* MarkUploaded stamping the instant before the transfer began.
MarkUploadedBefore(files, p, t) == IF p \in DOMAIN files THEN [files EXCEPT ![p].uploaded = t - 1] ELSE files

MarkUploaded(files, p, t) == IF p \in DOMAIN files THEN [files EXCEPT ![p].uploaded = t] ELSE files

\* RemoveFile that leaves the record in place.
RemoveFileKept(files, p) == files

RemoveFile(files, p) == Drop(files, p)

\* os.WriteFile: a write to a path that is a symlink goes to the file the
\* link names, and the path stays a symlink.
WriteFile(t, p, data) == Put(t, p, [data |-> data, mtime |-> now, link |-> p \in DOMAIN t /\ t[p].link])

\* The walker: a sync path that is a file contributes itself only, and
\* os.Stat has resolved it, so a symlink to a file counts as that file; a
\* sync path that is a directory contributes every entry below it that
\* filepath.Walk (which does not resolve symlinks) reports as a regular file.
GetLocalFiles(t) == [p \in {q \in DOMAIN t : IF q[1] \in TopFiles THEN Len(q) = 1 ELSE ~t[q].link} |-> t[p].mtime]

\* DetectChanges, given the two range orders lo (local files) and so (state).
RECURSIVE DetectLocal(_, _, _, _)
DetectLocal(t, files, lo, i) ==
  IF i > Len(lo) THEN << >>
  ELSE LET p == lo[i]
           hash == HashFile(t, p)
           rest == DetectLocal(t, files, lo, i + 1)
       IN IF p \notin DOMAIN files THEN <<[path |-> p, action |-> "add", hash |-> hash]>> \o rest
          ELSE IF files[p].hash # hash THEN <<[path |-> p, action |-> "modify", hash |-> hash]>> \o rest
          ELSE rest

RECURSIVE DetectDeleted(_, _, _)
DetectDeleted(localFiles, so, i) ==
  IF i > Len(so) THEN << >>
  ELSE LET p == so[i]
           rest == DetectDeleted(localFiles, so, i + 1)
       IN IF p \notin DOMAIN localFiles THEN <<[path |-> p, action |-> "delete", hash |-> NoHash]>> \o rest
          ELSE rest

\* DetectChanges without its second loop: deletions go unreported.
DetectChangesLocalOnly(t, files, lo, so) == DetectLocal(t, files, lo, 1)

DetectChanges(t, files, lo, so) == DetectLocal(t, files, lo, 1) \o DetectDeleted(GetLocalFiles(t), so, 1)

\* ---------------------------------------------------------------- engine
\* remoteKey without the suffix.
remoteKeyBare(p) == <<p, "">>

remoteKey(p) == <<p, ".age">>

localPath(k) == IF k[2] = ".age" THEN k[1] ELSE k

HasAgeSuffix(k) == k[2] = ".age"

EmptyResult == [uploaded |-> {}, downloaded |-> {}, deleted |-> {}, conflicts |-> {}, errors |-> {}]

\* The engine's view while one operation runs: the device's tree and state
\* files, the bucket, the result being built, the download queue, and
\* whether the operation reached state.Save().
Ctx(d) == [tree |-> tree[d], files |-> st[d].files, bucket |-> bucket, res |-> EmptyResult, todo |-> << >>, saved |-> FALSE, raced |-> FALSE]

AddRes(e, field, p) == [e EXCEPT !.res[field] = @ \cup {p}]

\* Another process (an editor, a running session) may rewrite a file while the
\* engine is between two of its file-system calls.  race is NoRace, or names
\* the one file that is rewritten, and with what, during this operation.
NoRace == [path |-> << >>, data |-> 0]

Races(paths) == {NoRace} \cup {[path |-> p, data |-> v] : p \in paths, v \in Data}

Interleave(e, p, race) ==
  IF race.path = p /\ ~e.raced
  THEN [e EXCEPT !.tree = WriteFile(@, p, race.data), !.raced = TRUE]
  ELSE e

\* uploadFile recording the zero hash instead of the file's.
uploadFileHashless(d, e, p, fails, race) ==
  IF p \notin DOMAIN e.tree \/ p \in fails THEN [ok |-> FALSE, e |-> e]
  ELSE LET b2 == Put(e.bucket, remoteKey(p), [body |-> Encrypt(d, e.tree[p].data), lm |-> now])
           e2 == Interleave([e EXCEPT !.bucket = b2], p, race)
       IN [ok |-> TRUE, e |-> [e2 EXCEPT !.files = MarkUploaded(UpdateFile(e2.files, p, NoHash), p, now)]]

\* uploadFile without the MarkUploaded call.
uploadFileUnmarked(d, e, p, fails, race) ==
  IF p \notin DOMAIN e.tree \/ p \in fails THEN [ok |-> FALSE, e |-> e]
  ELSE LET b2 == Put(e.bucket, remoteKey(p), [body |-> Encrypt(d, e.tree[p].data), lm |-> now])
           e2 == Interleave([e EXCEPT !.bucket = b2], p, race)
       IN [ok |-> TRUE, e |-> [e2 EXCEPT !.files = UpdateFile(e2.files, p, HashFile(e2.tree, p))]]

\* uploadFile recording the file in state before the upload is attempted.
uploadFileRecordFirst(d, e, p, fails, race) ==
  IF p \notin DOMAIN e.tree THEN [ok |-> FALSE, e |-> e]
  ELSE LET f1 == MarkUploaded(UpdateFile(e.files, p, HashFile(e.tree, p)), p, now)
       IN IF p \in fails THEN [ok |-> FALSE, e |-> [e EXCEPT !.files = f1]]
          ELSE LET b2 == Put(e.bucket, remoteKey(p), [body |-> Encrypt(d, e.tree[p].data), lm |-> now])
                   e2 == Interleave([e EXCEPT !.bucket = b2], p, race)
               IN [ok |-> TRUE, e |-> [e2 EXCEPT !.files = MarkUploaded(UpdateFile(e2.files, p, HashFile(e2.tree, p)), p, now)]]

\* uploadFile: read, encrypt, upload, then stat and hash the file again and
\* record hash and upload instant.
uploadFile(d, e, p, fails, race) ==
  IF p \notin DOMAIN e.tree \/ p \in fails THEN [ok |-> FALSE, e |-> e]
  ELSE LET body == Encrypt(d, e.tree[p].data)
           b2 == Put(e.bucket, remoteKey(p), [body |-> body, lm |-> now])
           e2 == Interleave([e EXCEPT !.bucket = b2], p, race)
           f2 == MarkUploaded(UpdateFile(e2.files, p, HashFile(e2.tree, p)), p, now)
       IN [ok |-> TRUE, e |-> [e2 EXCEPT !.files = f2]]

\* downloadFile hashing the file before it writes it.
downloadFileHashBefore(d, e, p, key, fails, race) ==
  IF key \notin DOMAIN e.bucket \/ localPath(key) \in fails THEN [ok |-> FALSE, e |-> e]
  ELSE LET dec == Decrypt(d, e.bucket[key].body)
       IN IF ~dec.ok THEN [ok |-> FALSE, e |-> e]
          ELSE LET e2 == Interleave([e EXCEPT !.tree = WriteFile(@, p, dec.plain)], p, race)
               IN [ok |-> TRUE, e |-> [e2 EXCEPT !.files = MarkUploaded(UpdateFile(e2.files, p, HashFile(e.tree, p)), p, now)]]

\* downloadFile without the MarkUploaded call.
downloadFileUnmarked(d, e, p, key, fails, race) ==
  IF key \notin DOMAIN e.bucket \/ localPath(key) \in fails THEN [ok |-> FALSE, e |-> e]
  ELSE LET dec == Decrypt(d, e.bucket[key].body)
       IN IF ~dec.ok THEN [ok |-> FALSE, e |-> e]
          ELSE LET e2 == Interleave([e EXCEPT !.tree = WriteFile(@, p, dec.plain)], p, race)
               IN [ok |-> TRUE, e |-> [e2 EXCEPT !.files = UpdateFile(e2.files, p, HashFile(e2.tree, p))]]

\* downloadFile that refuses to replace a file that exists.
downloadFileNoClobber(d, e, p, key, fails, race) ==
  IF key \notin DOMAIN e.bucket \/ localPath(key) \in fails \/ p \in DOMAIN e.tree THEN [ok |-> FALSE, e |-> e]
  ELSE LET dec == Decrypt(d, e.bucket[key].body)
       IN IF ~dec.ok THEN [ok |-> FALSE, e |-> e]
          ELSE LET e2 == Interleave([e EXCEPT !.tree = WriteFile(@, p, dec.plain)], p, race)
               IN [ok |-> TRUE, e |-> [e2 EXCEPT !.files = MarkUploaded(UpdateFile(e2.files, p, HashFile(e2.tree, p)), p, now)]]

\* downloadFile recording the path in state before it fetches the object.
downloadFileRecordFirst(d, e, p, key, fails, race) ==
  LET e0 == [e EXCEPT !.files = MarkUploaded(UpdateFile(e.files, p, HashFile(e.tree, p)), p, now)]
  IN IF key \notin DOMAIN e.bucket \/ localPath(key) \in fails THEN [ok |-> FALSE, e |-> e0]
     ELSE LET dec == Decrypt(d, e.bucket[key].body)
          IN IF ~dec.ok THEN [ok |-> FALSE, e |-> e0]
             ELSE LET e2 == Interleave([e EXCEPT !.tree = WriteFile(@, p, dec.plain)], p, race)
                  IN [ok |-> TRUE, e |-> [e2 EXCEPT !.files = MarkUploaded(UpdateFile(e2.files, p, HashFile(e2.tree, p)), p, now)]]

\* downloadFile: download, decrypt, write, then stat and hash the file
\* again and record hash and instant.
downloadFile(d, e, p, key, fails, race) ==
  IF key \notin DOMAIN e.bucket \/ localPath(key) \in fails THEN [ok |-> FALSE, e |-> e]
  ELSE LET dec == Decrypt(d, e.bucket[key].body)
       IN IF ~dec.ok THEN [ok |-> FALSE, e |-> e]
          ELSE LET t2 == WriteFile(e.tree, p, dec.plain)
                   e2 == Interleave([e EXCEPT !.tree = t2], p, race)
                   f2 == MarkUploaded(UpdateFile(e2.files, p, HashFile(e2.tree, p)), p, now)
               IN [ok |-> TRUE, e |-> [e2 EXCEPT !.files = f2]]

ConflictPath(p, t) == Append(p, t)

\* handleConflict writing the remote version over the local file.
handleConflictInPlace(d, e, p, key, fails, race) == downloadFile(d, e, p, key, fails, race)

handleConflict(d, e, p, key, fails, race) == downloadFile(d, e, ConflictPath(p, now), key, fails, race)

RECURSIVE PushLoop(_, _, _, _, _, _)
PushLoop(d, e, changes, i, fails, race) ==
  IF i > Len(changes) THEN e
  ELSE LET c == changes[i]
       IN IF c.action \in {"add", "modify"}
          THEN LET r == uploadFile(d, e, c.path, fails, race)
               IN IF r.ok THEN PushLoop(d, AddRes(r.e, "uploaded", c.path), changes, i + 1, fails, race)
                  ELSE PushLoop(d, AddRes(r.e, "errors", c.path), changes, i + 1, fails, race)
          ELSE IF c.path \in fails
               THEN PushLoop(d, AddRes(e, "errors", c.path), changes, i + 1, fails, race)
               ELSE LET e2 == [e EXCEPT !.bucket = Drop(@, remoteKey(c.path)), !.files = RemoveFile(@, c.path)]
                    IN PushLoop(d, AddRes(e2, "deleted", c.path), changes, i + 1, fails, race)

\* Push that stamps and saves the state also when it found no change.
PushAlwaysSaves(d, lo, so, fails, race) ==
  LET changes == DetectChanges(tree[d], st[d].files, lo, so)
  IN [PushLoop(d, Ctx(d), changes, 1, fails, race) EXCEPT !.saved = TRUE]

\* Push that returns the first error instead of collecting it: the state
\* is not saved when a bucket operation failed.
PushFailFast(d, lo, so, fails, race) ==
  LET changes == DetectChanges(tree[d], st[d].files, lo, so)
      e == PushLoop(d, Ctx(d), changes, 1, fails, race)
  IN IF Len(changes) = 0 THEN Ctx(d)
     ELSE [e EXCEPT !.saved = (e.res.errors = {})]

\* Syncer.Push with the range orders lo, so and the set of paths whose
\* bucket operation fails.
Push(d, lo, so, fails, race) ==
  LET changes == DetectChanges(tree[d], st[d].files, lo, so)
  IN IF Len(changes) = 0 THEN Ctx(d)
     ELSE [PushLoop(d, Ctx(d), changes, 1, fails, race) EXCEPT !.saved = TRUE]

\* Classify with After() replaced by "not before".
ClassifyNotStrict(e, localFiles, p, obj) ==
  IF p \notin DOMAIN localFiles THEN "download"
  ELSE IF p \in DOMAIN e.files
  THEN IF obj.lm >= e.files[p].uploaded
       THEN IF HashFile(e.tree, p) # e.files[p].hash THEN "conflict" ELSE "download"
       ELSE "skip"
  ELSE IF localFiles[p] < obj.lm THEN "download"
  ELSE "skip"

\* Classify without the modification-time test of the last branch.
ClassifyUntrackedDownload(e, localFiles, p, obj) ==
  IF p \notin DOMAIN localFiles THEN "download"
  ELSE IF p \in DOMAIN e.files
  THEN IF obj.lm > e.files[p].uploaded
       THEN IF HashFile(e.tree, p) # e.files[p].hash THEN "conflict" ELSE "download"
       ELSE "skip"
  ELSE "download"

\* The decision Pull takes for one remote file.
Classify(e, localFiles, p, obj) ==
  IF p \notin DOMAIN localFiles THEN "download"
  ELSE IF p \in DOMAIN e.files
  THEN IF obj.lm > e.files[p].uploaded
       THEN IF HashFile(e.tree, p) # e.files[p].hash THEN "conflict" ELSE "download"
       ELSE "skip"
  ELSE IF localFiles[p] < obj.lm THEN "download"
  ELSE "skip"

\* Pull, first loop: classify each remote file; conflicts are handled here.
RECURSIVE ClassifyLoop(_, _, _, _, _, _, _)
ClassifyLoop(d, e, localFiles, order, i, fails, race) ==
  IF i > Len(order) THEN e
  ELSE LET p == order[i]
           key == remoteKey(p)
           decision == Classify(e, localFiles, p, e.bucket[key])
       IN IF decision = "conflict"
          THEN LET e1 == AddRes(e, "conflicts", p)
                   r == handleConflict(d, e1, p, key, fails, race)
               IN IF r.ok THEN ClassifyLoop(d, r.e, localFiles, order, i + 1, fails, race)
                  ELSE ClassifyLoop(d, AddRes(r.e, "errors", p), localFiles, order, i + 1, fails, race)
          ELSE IF decision = "download"
          THEN ClassifyLoop(d, [e EXCEPT !.todo = Append(@, p)], localFiles, order, i + 1, fails, race)
          ELSE ClassifyLoop(d, e, localFiles, order, i + 1, fails, race)

\* Pull, second loop: download what was queued.
RECURSIVE DownloadLoop(_, _, _, _, _)
DownloadLoop(d, e, i, fails, race) ==
  IF i > Len(e.todo) THEN e
  ELSE LET p == e.todo[i]
           r == downloadFile(d, e, p, remoteKey(p), fails, race)
       IN IF r.ok THEN DownloadLoop(d, AddRes(r.e, "downloaded", p), i + 1, fails, race)
          ELSE DownloadLoop(d, AddRes(r.e, "errors", p), i + 1, fails, race)

RemoteFiles(b) == {localPath(k) : k \in {x \in DOMAIN b : HasAgeSuffix(x)}}

\* Pull that also forgets what the bucket no longer holds: records and
\* local files of tracked paths without a remote object are dropped.
RECURSIVE DropAll(_, _)
DropAll(f, ks) == IF ks = {} THEN f ELSE LET k == CHOOSE x \in ks : TRUE IN DropAll(Drop(f, k), ks \ {k})

PullPruning(d, order, fails, race) ==
  IF DOMAIN bucket = {} THEN Ctx(d)
  ELSE LET e1 == ClassifyLoop(d, Ctx(d), GetLocalFiles(tree[d]), order, 1, fails, race)
           e2 == DownloadLoop(d, e1, 1, fails, race)
           gone == DOMAIN st[d].files \ RemoteFiles(bucket)
       IN [e2 EXCEPT !.saved = TRUE, !.files = DropAll(@, gone), !.tree = DropAll(@, gone \cap DOMAIN e2.tree)]

\* Syncer.Pull with the range order of the remote file map and the set of
\* paths whose download fails.
Pull(d, order, fails, race) ==
  IF DOMAIN bucket = {} THEN Ctx(d)
  ELSE LET e1 == ClassifyLoop(d, Ctx(d), GetLocalFiles(tree[d]), order, 1, fails, race)
       IN [DownloadLoop(d, e1, 1, fails, race) EXCEPT !.saved = TRUE]

\* ------------------------------------------------------------------- CLI
HasState(s) == DOMAIN s.files # {} \/ s.lastSync \/ s.lastPush \/ s.lastPull

hasExistingClaudeFiles(t) == DOMAIN GetLocalFiles(t) # {}

\* pull hands a first pull over existing local files to the confirmation
\* dialogue unless --force was given; every other pull runs the engine
\* directly.
NeedsConfirmation(s, t) == ~HasState(s) /\ hasExistingClaudeFiles(t)

\* --------------------------------------------------------------- history
\* The last engine operation: who ran it, its result, and what the device
\* and the bucket held when it started.  It is kept until the next user
\* edit or clock tick, so while last.op # "none" the operation ran at `now`
\* and nothing has changed since it returned.
NoOp == [op |-> "none", dev |-> "", res |-> EmptyResult, raced |-> FALSE, tree0 |-> EmptyMap, st0 |-> NewState, bucket0 |-> EmptyMap]

Record(op, d, e) == [op |-> op, dev |-> d, res |-> e.res, raced |-> e.raced, tree0 |-> tree[d], st0 |-> st[d], bucket0 |-> bucket]

\* --------------------------------------------------------------- actions
Init ==
  /\ now = 1
  /\ bucket = EmptyMap
  /\ tree = [d \in Devices |-> EmptyMap]
  /\ st = [d \in Devices |-> NewState]
  /\ scope \in Workloads
  /\ edits = 0
  /\ last = NoOp
  /\ backups = [d \in Devices |-> EmptyMap]

Tick ==
  /\ now < MaxTime
  /\ now' = now + 1
  /\ last' = NoOp
  /\ UNCHANGED <<bucket, tree, st, scope, edits, backups>>

\* The user (or a program running as the user) writes a file of the
\* sync-path set.
UserWrite(d, p, data) ==
  /\ edits < MaxEdits
  /\ p \in scope
  /\ edits' = edits + 1
  /\ tree' = [tree EXCEPT ![d] = Put(@, p, [data |-> data, mtime |-> now, link |-> FALSE])]
  /\ last' = NoOp
  /\ UNCHANGED <<now, bucket, st, scope, backups>>

\* The user replaces a file of the sync-path set by a symlink to a regular
\* file outside the tree that holds data.
UserSymlink(d, p, data) ==
  /\ edits < MaxEdits
  /\ p \in scope
  /\ edits' = edits + 1
  /\ tree' = [tree EXCEPT ![d] = Put(@, p, [data |-> data, mtime |-> now, link |-> TRUE])]
  /\ last' = NoOp
  /\ UNCHANGED <<now, bucket, st, scope, backups>>

UserDelete(d, p) ==
  /\ edits < MaxEdits
  /\ p \in DOMAIN tree[d]
  /\ edits' = edits + 1
  /\ tree' = [tree EXCEPT ![d] = Drop(@, p)]
  /\ last' = NoOp
  /\ UNCHANGED <<now, bucket, st, scope, backups>>

\* The paths a push of device d transfers or deletes.
PushPaths(d) == {p \in DOMAIN GetLocalFiles(tree[d]) : p \in DOMAIN st[d].files => HashFile(tree[d], p) # st[d].files[p].hash} \cup (DOMAIN st[d].files \ DOMAIN GetLocalFiles(tree[d]))

\* claude-sync push
pushCmd(d) ==
  \E lo \in SeqsOf(DOMAIN GetLocalFiles(tree[d])), so \in SeqsOf(DOMAIN st[d].files), fails \in SUBSET PushPaths(d), race \in Races(scope \cap PushPaths(d)) :
    LET e == Push(d, lo, so, fails, race)
    IN /\ e.raced => edits < MaxEdits
       /\ edits' = IF e.raced THEN edits + 1 ELSE edits
       /\ bucket' = e.bucket
       /\ tree' = [tree EXCEPT ![d] = e.tree]
       /\ st' = [st EXCEPT ![d] = IF e.saved THEN [files |-> e.files, lastSync |-> TRUE, lastPush |-> TRUE, lastPull |-> @.lastPull] ELSE @]
       /\ last' = Record("push", d, e)
       /\ UNCHANGED <<now, scope, backups>>

\* claude-sync pull: the engine runs directly, or after --force or the
\* user's confirmation when NeedsConfirmation holds.
pullCmd(d) ==
  \E order \in SeqsOf(RemoteFiles(bucket)), fails \in SUBSET RemoteFiles(bucket), race \in Races(scope \cap RemoteFiles(bucket)) :
    LET e == Pull(d, order, fails, race)
    IN /\ e.raced => edits < MaxEdits
       /\ edits' = IF e.raced THEN edits + 1 ELSE edits
       /\ tree' = [tree EXCEPT ![d] = e.tree]
       /\ st' = [st EXCEPT ![d] = IF e.saved THEN [files |-> e.files, lastSync |-> TRUE, lastPush |-> @.lastPush, lastPull |-> TRUE] ELSE @]
       /\ last' = Record("pull", d, e)
       /\ UNCHANGED <<now, bucket, scope, backups>>

Next ==
  \/ Tick
  \/ \E d \in Devices, p \in BasePaths, data \in Data : UserWrite(d, p, data)
  \/ \E d \in Devices, p \in BasePaths : UserDelete(d, p)
  \/ \E d \in Devices : pushCmd(d)
  \/ \E d \in Devices : pullCmd(d)

Spec == Init /\ [][Next]_vars

\* The same commands, within one clock unit, over a bucket that another
\* tool shares: it holds an object whose key does not end in ".age", which
\* no command of the engine ever writes or deletes.
ForeignKey == <<<<"README">>, "">>

InitForeign ==
  /\ now = 1
  /\ bucket = Put(EmptyMap, ForeignKey, [body |-> [rcpt |-> 0, plain |-> 1], lm |-> 1])
  /\ tree = [d \in Devices |-> EmptyMap]
  /\ st = [d \in Devices |-> NewState]
  /\ scope \in Workloads
  /\ edits = 0
  /\ last = NoOp
  /\ backups = [d \in Devices |-> EmptyMap]

NextForeign ==
  \/ \E d \in Devices, p \in BasePaths, data \in Data : UserWrite(d, p, data)
  \/ \E d \in Devices, p \in BasePaths : UserDelete(d, p)
  \/ \E d \in Devices : pushCmd(d)
  \/ \E d \in Devices : pullCmd(d)

SpecForeign == InitForeign /\ [][NextForeign]_vars

\* The same commands over a bucket into which a device initialised with a
\* different passphrase has already pushed the file.
OtherIdentity == 2

InitKeys ==
  /\ now = 1
  /\ scope \in Workloads
  /\ bucket = [k \in {remoteKey(p) : p \in scope} |-> [body |-> [rcpt |-> OtherIdentity, plain |-> 1], lm |-> 1]]
  /\ tree = [d \in Devices |-> EmptyMap]
  /\ st = [d \in Devices |-> NewState]
  /\ edits = 0
  /\ last = NoOp
  /\ backups = [d \in Devices |-> EmptyMap]

SpecKeys == InitKeys /\ [][Next]_vars

\* The same commands over trees in which sync paths may be symlinks, within
\* one clock unit.
NextLinks ==
  \/ \E d \in Devices, p \in BasePaths, data \in Data : UserWrite(d, p, data)
  \/ \E d \in Devices, p \in BasePaths, data \in Data : UserSymlink(d, p, data)
  \/ \E d \in Devices, p \in BasePaths : UserDelete(d, p)
  \/ \E d \in Devices : pushCmd(d)
  \/ \E d \in Devices : pullCmd(d)

SpecLinks == Init /\ [][NextLinks]_vars

\* ------------------------------------------------------ the pull command
\* Syncer.PreviewPull: the classification of Pull over every remote file,
\* sorted into the report's lists; it reads the tree, the state and the
\* bucket listing and writes nothing.
PreviewPull(d) ==
  LET localFiles == GetLocalFiles(tree[d])
      remote == RemoteFiles(bucket)
      class == [p \in remote |-> Classify(Ctx(d), localFiles, p, bucket[remoteKey(p)])]
  IN [would_download |-> {p \in remote : class[p] = "download" /\ p \notin DOMAIN localFiles},
      would_overwrite |-> {p \in remote : class[p] = "download" /\ p \in DOMAIN localFiles},
      would_conflict |-> {p \in remote : class[p] = "conflict"},
      would_keep |-> {p \in remote : class[p] = "skip" /\ p \in DOMAIN localFiles},
      local_only |-> DOMAIN localFiles \ remote]

\* createBackup that copies the files at the top of the tree only.
createBackupFlat(d, order, copied, mkdirFails) ==
  LET old == IF now \in DOMAIN backups[d] THEN backups[d][now] ELSE EmptyMap
      n == IF mkdirFails THEN 0 ELSE copied
      done == {order[i] : i \in 1..n} \cap {<<f>> : f \in TopFiles}
      dir == [p \in DOMAIN old \cup done |-> IF p \in done THEN tree[d][p].data ELSE old[p]]
  IN [ok |-> ~mkdirFails /\ copied = Len(order),
      backups |-> IF mkdirFails /\ now \notin DOMAIN backups[d] THEN backups[d] ELSE Put(backups[d], now, dir)]

\* createBackup: the directory named after the current second receives a
\* copy of the bytes of each file the walker returns, in the walker map's
\* range order; copied is how many files are copied before an error stops
\* it (all of them: no error), and mkdirFails is the failure of the first
\* MkdirAll.
createBackup(d, order, copied, mkdirFails) ==
  LET old == IF now \in DOMAIN backups[d] THEN backups[d][now] ELSE EmptyMap
      n == IF mkdirFails THEN 0 ELSE copied
      done == {order[i] : i \in 1..n}
      dir == [p \in DOMAIN old \cup done |-> IF p \in done THEN tree[d][p].data ELSE old[p]]
  IN [ok |-> ~mkdirFails /\ copied = Len(order),
      backups |-> IF mkdirFails /\ now \notin DOMAIN backups[d] THEN backups[d] ELSE Put(backups[d], now, dir)]

\* What one run of the pull command leaves: the engine's context, the
\* device's backup directories, and the step at which the command returned.
Outcome(e, b, step) == [e |-> e, backups |-> b, step |-> step]

\* handleFirstPullWithExistingFiles going on to the pull after a failed
\* backup.
handleFirstPullWithExistingFilesUnchecked(d, dryRun, choice, bk, order, fails, race) ==
  LET preview == PreviewPull(d)
  IN IF preview.would_overwrite = {} /\ preview.would_download = {} /\ preview.would_conflict = {}
     THEN Outcome(Ctx(d), backups[d], "up to date")
     ELSE IF dryRun THEN Outcome(Ctx(d), backups[d], "dry run")
     ELSE IF choice = 0
     THEN LET b == createBackup(d, bk.order, bk.copied, bk.mkdirFails)
          IN Outcome(Pull(d, order, fails, race), b.backups, IF b.ok THEN "pull" ELSE "backup failed")
     ELSE IF choice = 1 THEN Outcome(Pull(d, order, fails, race), backups[d], "pull")
     ELSE Outcome(Ctx(d), backups[d], "aborted")

\* handleFirstPullWithExistingFiles without the dry-run return.
handleFirstPullWithExistingFilesWet(d, dryRun, choice, bk, order, fails, race) ==
  LET preview == PreviewPull(d)
  IN IF preview.would_overwrite = {} /\ preview.would_download = {} /\ preview.would_conflict = {}
     THEN Outcome(Ctx(d), backups[d], "up to date")
     ELSE IF choice = 0
     THEN LET b == createBackup(d, bk.order, bk.copied, bk.mkdirFails)
          IN IF ~b.ok THEN Outcome(Ctx(d), b.backups, "backup failed")
             ELSE Outcome(Pull(d, order, fails, race), b.backups, "pull")
     ELSE IF choice = 1 THEN Outcome(Pull(d, order, fails, race), backups[d], "pull")
     ELSE Outcome(Ctx(d), backups[d], "aborted")

\* handleFirstPullWithExistingFiles: preview, then (unless --dry-run) the
\* user's choice: 0 backup and pull, 1 pull, 2 abort.
handleFirstPullWithExistingFiles(d, dryRun, choice, bk, order, fails, race) ==
  LET preview == PreviewPull(d)
  IN IF preview.would_overwrite = {} /\ preview.would_download = {} /\ preview.would_conflict = {}
     THEN Outcome(Ctx(d), backups[d], "up to date")
     ELSE IF dryRun THEN Outcome(Ctx(d), backups[d], "dry run")
     ELSE IF choice = 0
     THEN LET b == createBackup(d, bk.order, bk.copied, bk.mkdirFails)
          IN IF ~b.ok THEN Outcome(Ctx(d), b.backups, "backup failed")
             ELSE Outcome(Pull(d, order, fails, race), b.backups, "pull")
     ELSE IF choice = 1 THEN Outcome(Pull(d, order, fails, race), backups[d], "pull")
     ELSE Outcome(Ctx(d), backups[d], "aborted")

\* showPullPreview prints the report.
showPullPreview(d) == Outcome(Ctx(d), backups[d], "dry run")

\* The pull command without the first-pull check.
runPullUnasked(d, dryRun, force, choice, bk, order, fails, race) ==
  IF dryRun THEN showPullPreview(d)
  ELSE Outcome(Pull(d, order, fails, race), backups[d], "pull")

\* claude-sync pull [--dry-run] [--force].
runPull(d, dryRun, force, choice, bk, order, fails, race) ==
  IF ~HasState(st[d]) /\ hasExistingClaudeFiles(tree[d]) /\ ~force
  THEN handleFirstPullWithExistingFiles(d, dryRun, choice, bk, order, fails, race)
  ELSE IF dryRun THEN showPullPreview(d)
  ELSE Outcome(Pull(d, order, fails, race), backups[d], "pull")

\* The ways createBackup can go on device d.
Backups(d) == {[order |-> o, copied |-> n, mkdirFails |-> m] : o \in SeqsOf(DOMAIN GetLocalFiles(tree[d])), n \in 0..Cardinality(DOMAIN GetLocalFiles(tree[d])), m \in BOOLEAN}

NoBackup == [order |-> << >>, copied |-> 0, mkdirFails |-> FALSE]

\* The inputs of one run: the flags, and only as far as the run consumes
\* them the user's choice, the course of the backup, and the range order
\* and failing downloads of the pull.
PullRuns(d) ==
  LET asks == ~HasState(st[d]) /\ hasExistingClaudeFiles(tree[d])
      pulls == {[order |-> o, fails |-> f] : o \in SeqsOf(RemoteFiles(bucket)), f \in SUBSET RemoteFiles(bucket)}
      run(dryRun, force, choice, bk, pl) == [dryRun |-> dryRun, force |-> force, choice |-> choice, bk |-> bk, pl |-> pl]
  IN {run(TRUE, force, 1, NoBackup, pl) : force \in BOOLEAN, pl \in pulls}
     \cup {run(FALSE, TRUE, 1, NoBackup, pl) : pl \in pulls}
     \cup (IF asks
           THEN {run(FALSE, FALSE, choice, NoBackup, pl) : choice \in 1..2, pl \in pulls}
                \cup {run(FALSE, FALSE, 0, bk, pl) : bk \in Backups(d), pl \in pulls}
           ELSE {run(FALSE, FALSE, 1, NoBackup, pl) : pl \in pulls})

pullCli(d) ==
  \E in \in PullRuns(d) :
    LET r == runPull(d, in.dryRun, in.force, in.choice, in.bk, in.pl.order, in.pl.fails, NoRace)
        e == r.e
    IN /\ tree' = [tree EXCEPT ![d] = e.tree]
       /\ st' = [st EXCEPT ![d] = IF e.saved THEN [files |-> e.files, lastSync |-> TRUE, lastPush |-> @.lastPush, lastPull |-> TRUE] ELSE @]
       /\ backups' = [backups EXCEPT ![d] = r.backups]
       /\ last' = [op |-> r.step, dev |-> d, res |-> e.res, raced |-> e.raced,
                   tree0 |-> tree[d], st0 |-> st[d], bucket0 |-> bucket, backups0 |-> backups[d],
                   dryRun |-> in.dryRun, force |-> in.force, choice |-> in.choice,
                   preview |-> PreviewPull(d)]
       /\ UNCHANGED <<now, bucket, scope, edits>>

\* The commands over trees that hold both files of the sync-path set: one
\* device publishes, and the other one pulls into a tree of its own.
Publisher == "A"
Newcomer == "B"

InitCli ==
  /\ now = 1
  /\ bucket = EmptyMap
  /\ tree = [d \in Devices |-> EmptyMap]
  /\ st = [d \in Devices |-> NewState]
  /\ scope = BasePaths
  /\ edits = 0
  /\ last = NoOp
  /\ backups = [d \in Devices |-> EmptyMap]

\* What each device's user writes into a file.
Content == [d \in Devices |-> IF d = Publisher THEN 1 ELSE 2]

NextCli ==
  \/ Tick
  \/ \E d \in Devices, p \in BasePaths : UserWrite(d, p, Content[d])
  \/ pushCmd(Publisher)
  \/ pullCli(Newcomer)

SpecCli == InitCli /\ [][NextCli]_vars

\* ------------------------------------------------------- cancellation
\* The engine hands its context to every bucket operation and tests it
\* nowhere else: once the context is cancelled, each later Upload, Delete
\* and Download returns the context's error.  cancelAt is the position, in
\* the sequence of the operation's bucket operations, of the first one
\* that finds the context cancelled (one past the end: never cancelled).
Cancelled(ops, cancelAt) == {ops[i] : i \in cancelAt..Len(ops)}

Completed(ops, cancelAt) == {ops[i] : i \in 1..(cancelAt - 1)}

\* Push: one bucket operation per change, in the order of DetectChanges.
PushOps(d, lo, so) ==
  LET changes == DetectChanges(tree[d], st[d].files, lo, so)
  IN [i \in 1..Len(changes) |-> changes[i].path]

\* Pull: the sidecar download of each conflict in the first loop, then the
\* queued downloads in the second, both in the range order of the remote map.
PullOps(d, order) ==
  LET localFiles == GetLocalFiles(tree[d])
      class(p) == Classify(Ctx(d), localFiles, p, bucket[remoteKey(p)])
      isConflict(p) == class(p) = "conflict"
      isDownload(p) == class(p) = "download"
  IN SelectSeq(order, isConflict) \o SelectSeq(order, isDownload)

pushCancelled(d) ==
  \E lo \in SeqsOf(DOMAIN GetLocalFiles(tree[d])), so \in SeqsOf(DOMAIN st[d].files) :
    LET ops == PushOps(d, lo, so)
    IN \E cancelAt \in 1..(Len(ops) + 1) :
         LET e == Push(d, lo, so, Cancelled(ops, cancelAt), NoRace)
         IN /\ bucket' = e.bucket
            /\ tree' = [tree EXCEPT ![d] = e.tree]
            /\ st' = [st EXCEPT ![d] = IF e.saved THEN [files |-> e.files, lastSync |-> TRUE, lastPush |-> TRUE, lastPull |-> @.lastPull] ELSE @]
            /\ last' = [op |-> "push", dev |-> d, res |-> e.res, raced |-> e.raced, tree0 |-> tree[d], st0 |-> st[d], bucket0 |-> bucket,
                        before |-> Completed(ops, cancelAt), after |-> Cancelled(ops, cancelAt)]
            /\ UNCHANGED <<now, scope, edits, backups>>

pullCancelled(d) ==
  \E order \in SeqsOf(RemoteFiles(bucket)) :
    LET ops == PullOps(d, order)
    IN \E cancelAt \in 1..(Len(ops) + 1) :
         LET e == Pull(d, order, Cancelled(ops, cancelAt), NoRace)
         IN /\ tree' = [tree EXCEPT ![d] = e.tree]
            /\ st' = [st EXCEPT ![d] = IF e.saved THEN [files |-> e.files, lastSync |-> TRUE, lastPush |-> @.lastPush, lastPull |-> TRUE] ELSE @]
            /\ last' = [op |-> "pull", dev |-> d, res |-> e.res, raced |-> e.raced, tree0 |-> tree[d], st0 |-> st[d], bucket0 |-> bucket,
                        before |-> Completed(ops, cancelAt), after |-> Cancelled(ops, cancelAt)]
            /\ UNCHANGED <<now, bucket, scope, edits, backups>>

NextCancel ==
  \/ Tick
  \/ \E d \in Devices, p \in BasePaths : UserWrite(d, p, Content[d])
  \/ \E d \in Devices, p \in BasePaths : UserDelete(d, p)
  \/ \E d \in Devices : pushCancelled(d)
  \/ \E d \in Devices : pullCancelled(d)

SpecCancel == InitCli /\ [][NextCancel]_vars

\* ------------------------------------------------------ the state file
\* SyncState.Save and LoadState over the state file.  The file's content is
\* a sequence of tokens; json.MarshalIndent produces the whole sequence in
\* memory, and os.WriteFile opens the file with O_TRUNC, writes, and
\* closes.  The process may be killed between any two of these steps and
\* while the write is under way.
NoFile == <<"absent">>

Marshal(s) == <<"{", s.files, s.lastSync, s.lastPush, s.lastPull, "}">>

\* LoadState: a missing file is a new state, a complete document is the
\* state it holds, and anything else is a parse error.
LoadState(file) ==
  IF file = NoFile THEN [ok |-> TRUE, state |-> NewState]
  ELSE IF Len(file) = 6 /\ file[1] = "{" /\ file[6] = "}"
  THEN [ok |-> TRUE, state |-> [files |-> file[2], lastSync |-> file[3], lastPush |-> file[4], lastPull |-> file[5]]]
  ELSE [ok |-> FALSE, state |-> NewState]

\* The states a device moves through in its first operations on one file.
SavedStates ==
  {NewState}
  \cup {[files |-> Put(EmptyMap, <<f>>, [hash |-> Sha256(v), uploaded |-> 1]), lastSync |-> TRUE, lastPush |-> push, lastPull |-> ~push] :
          f \in TopFiles, v \in Data, push \in BOOLEAN}

InitSave ==
  /\ now = 1
  /\ bucket = EmptyMap
  /\ tree = [d \in Devices |-> EmptyMap]
  /\ st = [d \in Devices |-> NewState]
  /\ scope = BasePaths
  /\ edits = 0
  /\ \E old \in {NoFile} \cup {Marshal(s) : s \in SavedStates}, new \in SavedStates \ {NewState} :
       last = [op |-> "save", pc |-> "marshal", old |-> old, new |-> new, file |-> old, data |-> << >>]
  /\ backups = [d \in Devices |-> EmptyMap]

\* data, err := json.MarshalIndent(s, "", "  ")
saveMarshal ==
  /\ last.op = "save" /\ last.pc = "marshal"
  /\ last' = [last EXCEPT !.pc = "open", !.data = Marshal(last.new)]
  /\ UNCHANGED <<now, bucket, tree, st, scope, edits, backups>>

\* os.WriteFile: OpenFile(name, O_WRONLY|O_CREATE|O_TRUNC, perm)
saveOpen ==
  /\ last.op = "save" /\ last.pc = "open"
  /\ last' = [last EXCEPT !.pc = "write", !.file = << >>]
  /\ UNCHANGED <<now, bucket, tree, st, scope, edits, backups>>

\* os.WriteFile: f.Write(data); the bytes reach the file one after another.
saveWrite ==
  /\ last.op = "save" /\ last.pc = "write" /\ Len(last.file) < Len(last.data)
  /\ last' = [last EXCEPT !.file = Append(@, last.data[Len(@) + 1])]
  /\ UNCHANGED <<now, bucket, tree, st, scope, edits, backups>>

\* os.WriteFile: f.Close()
saveClose ==
  /\ last.op = "save" /\ last.pc = "write" /\ Len(last.file) = Len(last.data)
  /\ last' = [last EXCEPT !.pc = "saved"]
  /\ UNCHANGED <<now, bucket, tree, st, scope, edits, backups>>

\* The process is killed.
crash ==
  /\ last.op = "save" /\ last.pc \in {"marshal", "open", "write"}
  /\ last' = [last EXCEPT !.pc = "crashed"]
  /\ UNCHANGED <<now, bucket, tree, st, scope, edits, backups>>

NextSave == saveMarshal \/ saveOpen \/ saveWrite \/ saveClose \/ crash

SpecSave == InitSave /\ [][NextSave]_vars

\* ------------------------------------------------------ key-match probe
\* The size of a stored object: an age header and the payload, where the
\* payload value 2 stands for a file too large for the probe's preference
\* and 0 for an empty one; an object that is not age output has no header.
SmallLimit == 10000

ObjectSize(body) == (IF body.rcpt = 0 THEN 0 ELSE 200) + (IF body.plain = 0 THEN 0 ELSE IF body.plain = 1 THEN 100 ELSE 20000)

\* verifyKeyMatchesRemote that reports a failed listing or download as its
\* own outcome.
verifyKeyMatchesRemoteInconclusive(d, b, listing, listFails, dlFails, keyFails) ==
  IF listFails THEN [outcome |-> "Inconclusive", probed |-> << >>]
  ELSE IF Len(listing) = 0 THEN [outcome |-> "Ok", probed |-> << >>]
  ELSE LET small == {i \in 1..Len(listing) : ObjectSize(b[listing[i]].body) > 0 /\ ObjectSize(b[listing[i]].body) < SmallLimit}
           testObj == IF small # {} THEN listing[CHOOSE i \in small : \A j \in small : i <= j] ELSE listing[1]
       IN IF dlFails THEN [outcome |-> "Inconclusive", probed |-> << >>]
          ELSE IF keyFails THEN [outcome |-> "KeyLoadError", probed |-> << >>]
          ELSE IF Decrypt(d, b[testObj].body).ok THEN [outcome |-> "Ok", probed |-> <<testObj>>]
          ELSE [outcome |-> "KeyMismatch", probed |-> <<testObj>>]

\* verifyKeyMatchesRemote that swallows the decryption error as it swallows
\* the storage errors.
verifyKeyMatchesRemoteLenient(d, b, listing, listFails, dlFails, keyFails) ==
  IF listFails \/ Len(listing) = 0 THEN [outcome |-> "Ok", probed |-> << >>]
  ELSE LET small == {i \in 1..Len(listing) : ObjectSize(b[listing[i]].body) > 0 /\ ObjectSize(b[listing[i]].body) < SmallLimit}
           testObj == IF small # {} THEN listing[CHOOSE i \in small : \A j \in small : i <= j] ELSE listing[1]
       IN IF dlFails THEN [outcome |-> "Ok", probed |-> << >>]
          ELSE IF keyFails THEN [outcome |-> "KeyLoadError", probed |-> << >>]
          ELSE [outcome |-> "Ok", probed |-> <<testObj>>]

\* verifyKeyMatchesRemote over the bucket b as store.List returned it
\* (listing), with the failures of List, Download and of loading the key
\* file as inputs. A nil return is the outcome "Ok"; probed holds the key
\* of the object that was decrypted, if one was.
verifyKeyMatchesRemote(d, b, listing, listFails, dlFails, keyFails) ==
  IF listFails \/ Len(listing) = 0 THEN [outcome |-> "Ok", probed |-> << >>]
  ELSE LET small == {i \in 1..Len(listing) : ObjectSize(b[listing[i]].body) > 0 /\ ObjectSize(b[listing[i]].body) < SmallLimit}
           testObj == IF small # {} THEN listing[CHOOSE i \in small : \A j \in small : i <= j] ELSE listing[1]
       IN IF dlFails THEN [outcome |-> "Ok", probed |-> << >>]
          ELSE IF keyFails THEN [outcome |-> "KeyLoadError", probed |-> << >>]
          ELSE IF Decrypt(d, b[testObj].body).ok THEN [outcome |-> "Ok", probed |-> <<testObj>>]
          ELSE [outcome |-> "KeyMismatch", probed |-> <<testObj>>]

\* The buckets the probe is run against: any set of objects written by
\* devices of either passphrase, beside an object that is not age output.
ProbeKeys == {remoteKey(p) : p \in BasePaths} \cup {ForeignKey}

ProbeObjects(k) ==
  IF k = ForeignKey THEN {[body |-> [rcpt |-> 0, plain |-> x], lm |-> 1] : x \in {0, 1}}
  ELSE {[body |-> [rcpt |-> r, plain |-> x], lm |-> 1] : r \in {1, OtherIdentity}, x \in Data}

ProbeBuckets == UNION {{b \in [K -> UNION {ProbeObjects(k) : k \in K}] : \A k \in K : b[k] \in ProbeObjects(k)} : K \in SUBSET ProbeKeys}

InitProbe ==
  /\ now = 1
  /\ bucket \in ProbeBuckets
  /\ tree = [d \in Devices |-> EmptyMap]
  /\ st = [d \in Devices |-> NewState]
  /\ scope = BasePaths
  /\ edits = 0
  /\ last = NoOp
  /\ backups = [d \in Devices |-> EmptyMap]

\* claude-sync init on a bucket that is already in use.
probeCmd(d) ==
  \E listing \in SeqsOf(DOMAIN bucket), listFails \in BOOLEAN, dlFails \in BOOLEAN, keyFails \in BOOLEAN :
    /\ last' = [op |-> "probe", dev |-> d, bucket0 |-> bucket, listing |-> listing, listFails |-> listFails, dlFails |-> dlFails, keyFails |-> keyFails,
                probe |-> verifyKeyMatchesRemote(d, bucket, listing, listFails, dlFails, keyFails)]
    /\ UNCHANGED <<now, bucket, tree, st, scope, edits, backups>>

NextProbe == \E d \in Devices : probeCmd(d)

SpecProbe == InitProbe /\ [][NextProbe]_vars

\* ---------------------------------------------------- crypto, byte level
\* The package crypto over byte strings.  A byte is 0 or 1 and a plaintext
\* has up to MaxLen bytes; ChunkSize bytes stand for the 64 KiB that age
\* seals at a time.  An age file is the recipient stanza, the nonce that
\* its file key was drawn with, and the sealed chunks, the last of which
\* carries the end-of-stream flag.
MaxLen == 3
ChunkSize == 2

Bytes == {0, 1}

ByteStrings == UNION {[1..n -> Bytes] : n \in 0..MaxLen}

FileKeys == {0, 1}

Passphrases == {1, 2}

\* sha256("claude-sync-v1"), the salt of every derivation.
Salt == 7

\* argon2.IDKey: a deterministic function of passphrase and salt; the two
\* bytes are key[0] and key[31].
IDKey(passphrase, salt) == <<(passphrase * 37 + salt) % 256, (passphrase * 91 + salt * 3) % 256>>

\* key[0] &= 248; key[31] &= 127; key[31] |= 64
Clamp(key) == <<key[1] - (key[1] % 8), ((key[2] % 128) % 64) + 64>>

\* encodeAgeIdentity, and the key file with its trailing newline.
encodeAgeIdentity(scalar) == [hrp |-> "AGE-SECRET-KEY-", data |-> scalar]

\* GenerateKeyFromPassphrase with a salt of the device's own.
GenerateKeyFromPassphraseSalted(d, passphrase) ==
  [text |-> encodeAgeIdentity(Clamp(IDKey(passphrase, IF d = "A" THEN Salt ELSE Salt + 1))), newline |-> TRUE]

\* GenerateKeyFromPassphrase on device d: the content of the key file.
GenerateKeyFromPassphrase(d, passphrase) ==
  [text |-> encodeAgeIdentity(Clamp(IDKey(passphrase, Salt))), newline |-> TRUE]

\* X25519Identity.Recipient: the public key of a scalar.
Recipient(scalar) == [pub |-> scalar]

\* NewEncryptor: read the key file, trim it, parse the identity.
NewEncryptor(keyFile) ==
  IF keyFile.text.hrp = "AGE-SECRET-KEY-"
  THEN [ok |-> TRUE, identity |-> keyFile.text.data, recipient |-> Recipient(keyFile.text.data)]
  ELSE [ok |-> FALSE, identity |-> << >>, recipient |-> Recipient(<< >>)]

Seal(bytes, fk) == [i \in 1..Len(bytes) |-> (bytes[i] + fk) % 2]

Open(bytes, fk) == [i \in 1..Len(bytes) |-> (bytes[i] + 2 - fk) % 2]

\* The age writer: Write seals every full chunk that is followed by more
\* data; Close seals what is pending as the final chunk.
RECURSIVE WriterFlush(_)
WriterFlush(w) ==
  IF Len(w.buf) <= ChunkSize THEN w
  ELSE WriterFlush([w EXCEPT !.chunks = Append(@, [data |-> Seal(SubSeq(w.buf, 1, ChunkSize), w.fk), final |-> FALSE]),
                             !.buf = SubSeq(@, ChunkSize + 1, Len(@))])

WriterWrite(w, bytes) == WriterFlush([w EXCEPT !.buf = @ \o bytes])

WriterClose(w) == [w EXCEPT !.chunks = Append(@, [data |-> Seal(w.buf, w.fk), final |-> TRUE]), !.buf = << >>]

\* Encryptor.Encrypt returning the buffer without closing the writer.
EncryptorEncryptUnclosed(e, plaintext, fk) ==
  LET w == WriterWrite([rcpt |-> e.recipient, fk |-> fk, chunks |-> << >>, buf |-> << >>], plaintext)
  IN [rcpt |-> w.rcpt, fk |-> w.fk, chunks |-> w.chunks]

\* Encryptor.Encrypt: age.Encrypt, Write, Close, buf.Bytes().
EncryptorEncrypt(e, plaintext, fk) ==
  LET w == WriterClose(WriterWrite([rcpt |-> e.recipient, fk |-> fk, chunks |-> << >>, buf |-> << >>], plaintext))
  IN [rcpt |-> w.rcpt, fk |-> w.fk, chunks |-> w.chunks]

RECURSIVE ReadAll(_, _, _)
ReadAll(chunks, fk, i) ==
  IF i > Len(chunks) THEN << >> ELSE Open(chunks[i].data, fk) \o ReadAll(chunks, fk, i + 1)

\* Encryptor.Decrypt: age.Decrypt fails unless a stanza is addressed to
\* the identity; io.ReadAll fails on a stream without its final chunk.
EncryptorDecrypt(e, ciphertext) ==
  IF ciphertext.rcpt # Recipient(e.identity) THEN [ok |-> FALSE, plaintext |-> << >>]
  ELSE IF Len(ciphertext.chunks) = 0 \/ \E i \in 1..Len(ciphertext.chunks) : ciphertext.chunks[i].final # (i = Len(ciphertext.chunks))
  THEN [ok |-> FALSE, plaintext |-> << >>]
  ELSE [ok |-> TRUE, plaintext |-> ReadAll(ciphertext.chunks, ciphertext.fk, 1)]

NoKey == [text |-> [hrp |-> "", data |-> << >>], newline |-> FALSE]

InitCrypto ==
  /\ now = 1
  /\ bucket = EmptyMap
  /\ tree = [d \in Devices |-> EmptyMap]
  /\ st = [d \in Devices |-> NewState]
  /\ scope = BasePaths
  /\ edits = 0
  /\ last = [op |-> "setup", keyFile |-> [d \in Devices |-> NoKey], passphrase |-> [d \in Devices |-> 0]]
  /\ backups = [d \in Devices |-> EmptyMap]

\* claude-sync init --passphrase on device d.
initPassphrase(d) ==
  \E passphrase \in Passphrases :
    /\ last.op = "setup" /\ last.keyFile[d] = NoKey
    /\ last' = [last EXCEPT !.keyFile[d] = GenerateKeyFromPassphrase(d, passphrase), !.passphrase[d] = passphrase]
    /\ UNCHANGED <<now, bucket, tree, st, scope, edits, backups>>

\* Device d encrypts a byte string.
encryptBytes(d) ==
  \E plaintext \in ByteStrings, fk \in FileKeys :
    /\ last.op = "setup" /\ \A x \in Devices : last.keyFile[x] # NoKey
    /\ last' = [op |-> "encrypted", keyFile |-> last.keyFile, passphrase |-> last.passphrase, writer |-> d,
                plaintext |-> plaintext, ciphertext |-> EncryptorEncrypt(NewEncryptor(last.keyFile[d]), plaintext, fk)]
    /\ UNCHANGED <<now, bucket, tree, st, scope, edits, backups>>

\* Device d decrypts what was encrypted.
decryptBytes(d) ==
  /\ last.op = "encrypted"
  /\ last' = [op |-> "decrypted", keyFile |-> last.keyFile, passphrase |-> last.passphrase, writer |-> last.writer,
              plaintext |-> last.plaintext, ciphertext |-> last.ciphertext, reader |-> d,
              out |-> EncryptorDecrypt(NewEncryptor(last.keyFile[d]), last.ciphertext)]
  /\ UNCHANGED <<now, bucket, tree, st, scope, edits, backups>>

NextCrypto ==
  \/ \E d \in Devices : initPassphrase(d)
  \/ \E d \in Devices : encryptBytes(d)
  \/ \E d \in Devices : decryptBytes(d)

SpecCrypto == InitCrypto /\ [][NextCrypto]_vars

\* -------------------------------------------------------- bulk deletion
\* Storage.DeleteBatch of the two adapters, and clearRemoteStorage, which
\* lists the bucket and hands every key to DeleteBatch.  A result names the
\* bucket that is left and whether the call returned an error.
\*
\* The S3 adapter sends the keys in requests of at most maxBatchSize keys.
\* A request that fails as a whole (requestFails) returns an error and
\* deletes nothing; in a request that succeeds, the service deletes what
\* it can and names each key it could not delete (denied) in the
\* response's Errors list.  The adapter looks at the error only and
\* discards the response.
maxBatchSize == 1000

RECURSIVE s3DeleteBatches(_, _, _, _, _)
s3DeleteBatches(b, keys, i, denied, requestFails) ==
  IF i > Len(keys) THEN [bucket |-> b, err |-> FALSE]
  ELSE LET end == IF i + maxBatchSize - 1 > Len(keys) THEN Len(keys) ELSE i + maxBatchSize - 1
           batch == {keys[j] : j \in i..end}
       IN IF requestFails THEN [bucket |-> b, err |-> TRUE]
          ELSE s3DeleteBatches(DropAll(b, (batch \ denied) \cap DOMAIN b), keys, end + 1, denied, requestFails)

s3DeleteBatch(b, keys, denied, requestFails) ==
  IF Len(keys) = 0 THEN [bucket |-> b, err |-> FALSE]
  ELSE s3DeleteBatches(b, keys, 1, denied, requestFails)

\* The GCS adapter deletes each key in a goroutine of an errgroup whose
\* context is cancelled by the first failure: the keys in denied fail,
\* those in skipped find the context cancelled, and Wait returns the
\* first error.
gcsDeleteBatch(b, keys, denied, skipped) ==
  IF Len(keys) = 0 THEN [bucket |-> b, err |-> FALSE]
  ELSE LET all == {keys[j] : j \in 1..Len(keys)}
           lost == IF denied = {} THEN {} ELSE skipped
       IN [bucket |-> DropAll(b, (all \ (denied \cup lost)) \cap DOMAIN b), err |-> denied # {}]

Backends == {"s3", "gcs"}

DeleteBatch(backend, b, keys, denied, other) ==
  IF backend = "s3" THEN s3DeleteBatch(b, keys, denied, other.requestFails)
  ELSE gcsDeleteBatch(b, keys, denied, other.skipped)

\* clearRemoteStorage
clearRemoteStorage(backend, b, listing, listFails, denied, other) ==
  IF listFails THEN [bucket |-> b, err |-> TRUE]
  ELSE IF Len(listing) = 0 THEN [bucket |-> b, err |-> FALSE]
  ELSE DeleteBatch(backend, b, listing, denied, other)

\* claude-sync init, answer "clear remote files and start fresh".
clearCmd(backend) ==
  \E listing \in SeqsOf(DOMAIN bucket), listFails \in BOOLEAN, denied \in SUBSET DOMAIN bucket :
    \E other \in {[requestFails |-> f, skipped |-> s] : f \in BOOLEAN, s \in SUBSET (DOMAIN bucket \ denied)} :
      LET r == clearRemoteStorage(backend, bucket, listing, listFails, denied, other)
      IN /\ IF backend = "s3" THEN other.skipped = {} ELSE ~other.requestFails
         /\ bucket' = r.bucket
         /\ last' = [op |-> "clear", dev |-> "", backend |-> backend, bucket0 |-> bucket, listFails |-> listFails,
                     keys |-> DOMAIN bucket, denied |-> denied, err |-> r.err]
         /\ UNCHANGED <<now, tree, st, scope, edits, backups>>

NextClear == \E backend \in Backends : clearCmd(backend)

SpecClear == InitProbe /\ [][NextClear]_vars

\* ------------------------------------------------ the conflicts command
\* findConflicts: the files below ~/.claude whose name splits into exactly
\* two parts at ".conflict.", sorted by timestamp, newest first; rank is
\* the order sort.Slice leaves among equal timestamps.
IsConflictFile(p) == Len(p) = 2

OriginalPath(c) == <<c[1]>>

Timestamp(c) == c[2]

findConflicts(t) == {o \in SeqsOf({p \in DOMAIN t : IsConflictFile(p)}) : \A i, j \in 1..Len(o) : i < j => Timestamp(o[i]) >= Timestamp(o[j])}

\* os.Rename: the entry at from, its modification time included, takes the
\* place of whatever is at to.
Rename(t, from, to) == Drop(Put(t, to, t[from]), from)

\* One conflict resolved: "local" removes the sidecar, "remote" renames it
\* over the original; a failing call leaves the tree as it is.
resolveConflict(t, c, keep, fails) ==
  IF c \in fails THEN t
  ELSE IF keep = "local" THEN Drop(t, c)
  ELSE Rename(t, c, OriginalPath(c))

\* batchResolveConflicts: every conflict in turn, in the order found.
RECURSIVE batchResolveConflicts(_, _, _, _, _)
batchResolveConflicts(t, conflicts, i, keep, fails) ==
  IF i > Len(conflicts) THEN t
  ELSE batchResolveConflicts(resolveConflict(t, conflicts[i], keep, fails), conflicts, i + 1, keep, fails)

\* interactiveResolveConflicts: one answer per conflict, "l", "r", "s"
\* (skip) or "q" (quit).
RECURSIVE interactiveResolveConflicts(_, _, _, _, _)
interactiveResolveConflicts(t, conflicts, i, answers, fails) ==
  IF i > Len(conflicts) \/ answers[i] = "q" THEN t
  ELSE IF answers[i] = "s" THEN interactiveResolveConflicts(t, conflicts, i + 1, answers, fails)
  ELSE interactiveResolveConflicts(resolveConflict(t, conflicts[i], IF answers[i] = "l" THEN "local" ELSE "remote", fails),
                                   conflicts, i + 1, answers, fails)

\* claude-sync conflicts [--list | --keep local|remote]
conflictsCmd(d) ==
  \E conflicts \in findConflicts(tree[d]) :
    /\ Len(conflicts) > 0
    /\ \E mode \in {"list", "local", "remote", "interactive"}, fails \in SUBSET {conflicts[i] : i \in 1..Len(conflicts)},
          answers \in [1..Len(conflicts) -> {"l", "r", "s", "q"}] :
         /\ mode = "list" => fails = {}
         /\ mode # "interactive" => \A i \in 1..Len(conflicts) : answers[i] = "s"
         /\ tree' = [tree EXCEPT ![d] =
                       IF mode = "list" THEN @
                       ELSE IF mode = "interactive" THEN interactiveResolveConflicts(@, conflicts, 1, answers, fails)
                       ELSE batchResolveConflicts(@, conflicts, 1, mode, fails)]
         /\ last' = [op |-> "conflicts", dev |-> d, res |-> EmptyResult, raced |-> FALSE, tree0 |-> tree[d], st0 |-> st[d], bucket0 |-> bucket,
                     mode |-> mode, conflicts |-> conflicts, answers |-> answers, fails |-> fails]
         /\ UNCHANGED <<now, bucket, st, scope, edits, backups>>

\* The commands over two devices that are in sync on one file, as after a
\* push by one and a pull by the other within the first second; the clock
\* runs to MaxLate, so that a conflict can be met in two different seconds.
MaxLate == 3

InitResolve ==
  /\ now = 1
  /\ scope \in Workloads
  /\ bucket = [k \in {remoteKey(p) : p \in scope} |-> [body |-> Encrypt(Publisher, 1), lm |-> 1]]
  /\ tree = [d \in Devices |-> [p \in scope |-> [data |-> 1, mtime |-> 1, link |-> FALSE]]]
  /\ st = [d \in Devices |-> [files |-> [p \in scope |-> [hash |-> Sha256(1), uploaded |-> 1]], lastSync |-> TRUE, lastPush |-> d = Publisher, lastPull |-> d = Newcomer]]
  /\ edits = 0
  /\ last = NoOp
  /\ backups = [d \in Devices |-> EmptyMap]

LateTick ==
  /\ now < MaxLate
  /\ now' = now + 1
  /\ last' = NoOp
  /\ UNCHANGED <<bucket, tree, st, scope, edits, backups>>

NextResolve ==
  \/ LateTick
  \/ \E d \in Devices, p \in BasePaths, data \in Data : UserWrite(d, p, data)
  \/ pushCmd(Publisher)
  \/ pullCmd(Newcomer)
  \/ conflictsCmd(Newcomer)

SpecResolve == InitResolve /\ [][NextResolve]_vars

\* ------------------------------------------------------ overlapping runs
\* A pull of device d during which device w pushes.  The pull lists the
\* bucket and classifies against that listing; w's uploads reach the bucket
\* after the listing, either before the pull's downloads fetch the objects
\* (early) or after them and before downloadFile stamps the record; the
\* pull never lists again.
pullOverlapped(d, w) ==
  \E order \in SeqsOf(RemoteFiles(bucket)), early \in BOOLEAN,
     lo \in SeqsOf(DOMAIN GetLocalFiles(tree[w])), so \in SeqsOf(DOMAIN st[w].files) :
    LET e1 == ClassifyLoop(d, Ctx(d), GetLocalFiles(tree[d]), order, 1, {}, NoRace)
        ew == Push(w, lo, so, {}, NoRace)
        e2 == DownloadLoop(d, [e1 EXCEPT !.bucket = IF early THEN ew.bucket ELSE bucket], 1, {}, NoRace)
    IN /\ DOMAIN bucket # {}
       /\ ew.saved
       /\ bucket' = ew.bucket
       /\ tree' = [tree EXCEPT ![d] = e2.tree, ![w] = ew.tree]
       /\ st' = [st EXCEPT ![d] = [files |-> e2.files, lastSync |-> TRUE, lastPush |-> @.lastPush, lastPull |-> TRUE],
                           ![w] = [files |-> ew.files, lastSync |-> TRUE, lastPush |-> TRUE, lastPull |-> @.lastPull]]
       /\ last' = [op |-> "pull", dev |-> d, res |-> e2.res, raced |-> FALSE, tree0 |-> tree[d], st0 |-> st[d], bucket0 |-> bucket,
                   early |-> early, pushed |-> ew.res.uploaded]
       /\ UNCHANGED <<now, scope, edits, backups>>

NextOverlap ==
  \/ Tick
  \/ \E d \in Devices, p \in BasePaths, data \in Data : UserWrite(d, p, data)
  \/ pushCmd(Publisher)
  \/ pullCmd(Newcomer)
  \/ pullOverlapped(Newcomer, Publisher)

SpecOverlap == Init /\ [][NextOverlap]_vars

\* ------------------------------------------------- init --passphrase
\* initPassphraseOnly on a device that holds the key file of an earlier
\* init: enterPassphraseAndVerify asks for a passphrase, writes the key
\* derived from it over the key file, and probes the bucket with it.
\* remote is the passphrase the bucket's objects were written under (0: the
\* bucket is empty).  The inner prompt loop is left only with a passphrase
\* that is long enough and was confirmed.
NoRemote == 0

\* verifyKeyMatchesRemote for a bucket written under one passphrase: a
\* failing store and an empty bucket are a match.
keyMatchesRemote(d, keyFile, remote, storeFails) ==
  \/ storeFails
  \/ remote = NoRemote
  \/ EncryptorDecrypt(NewEncryptor(keyFile), EncryptorEncrypt(NewEncryptor(GenerateKeyFromPassphrase(d, remote)), <<1>>, 0)).ok

InitRekey ==
  /\ now = 1
  /\ bucket = EmptyMap
  /\ tree = [d \in Devices |-> EmptyMap]
  /\ st = [d \in Devices |-> NewState]
  /\ scope = BasePaths
  /\ edits = 0
  /\ \E d \in Devices, old \in Passphrases, remote \in {NoRemote} \cup Passphrases :
       last = [op |-> "rekey", dev |-> d, pc |-> "prompt", keyFile0 |-> GenerateKeyFromPassphrase(d, old),
               keyFile |-> GenerateKeyFromPassphrase(d, old), remote |-> remote, mismatches |-> 0, answer |-> "none"]
  /\ backups = [d \in Devices |-> EmptyMap]

\* The passphrase prompt returns an error (the user interrupts it).
promptFails ==
  /\ last.op = "rekey" /\ last.pc = "prompt"
  /\ last' = [last EXCEPT !.pc = "failed"]
  /\ UNCHANGED <<now, bucket, tree, st, scope, edits, backups>>

\* A passphrase is entered: GenerateKeyFromPassphrase writes the key file,
\* verifyKeyMatchesRemote probes the bucket.
enterPassphrase ==
  \E passphrase \in Passphrases, storeFails \in BOOLEAN :
    LET keyFile == GenerateKeyFromPassphrase(last.dev, passphrase)
    IN /\ last.op = "rekey" /\ last.pc = "prompt"
       /\ last' = [last EXCEPT !.keyFile = keyFile,
                               !.pc = IF keyMatchesRemote(last.dev, keyFile, last.remote, storeFails) THEN "done" ELSE "mismatch",
                               !.mismatches = IF keyMatchesRemote(last.dev, keyFile, last.remote, storeFails) THEN @ ELSE 1]
       /\ UNCHANGED <<now, bucket, tree, st, scope, edits, backups>>

\* handleKeyMismatch returns an error.
mismatchPromptFails ==
  /\ last.op = "rekey" /\ last.pc = "mismatch"
  /\ last' = [last EXCEPT !.pc = "failed"]
  /\ UNCHANGED <<now, bucket, tree, st, scope, edits, backups>>

\* actionRetryPassphrase: os.Remove(keyPath); continue
retryPassphrase ==
  /\ last.op = "rekey" /\ last.pc = "mismatch"
  /\ last' = [last EXCEPT !.pc = "prompt", !.keyFile = NoKey, !.answer = "retry"]
  /\ UNCHANGED <<now, bucket, tree, st, scope, edits, backups>>

\* actionClearRemote: return true; initPassphraseOnly then clears the
\* bucket and goes on also when that failed.
clearRemote ==
  \E clearFails \in BOOLEAN :
    /\ last.op = "rekey" /\ last.pc = "mismatch"
    /\ last' = [last EXCEPT !.pc = "done", !.remote = IF clearFails THEN @ ELSE NoRemote, !.answer = "clear"]
    /\ UNCHANGED <<now, bucket, tree, st, scope, edits, backups>>

\* actionAbort: os.Remove(keyPath); return "setup aborted"
abortSetup ==
  /\ last.op = "rekey" /\ last.pc = "mismatch"
  /\ last' = [last EXCEPT !.pc = "aborted", !.keyFile = NoKey, !.answer = "abort"]
  /\ UNCHANGED <<now, bucket, tree, st, scope, edits, backups>>

NextRekey == promptFails \/ enterPassphrase \/ mismatchPromptFails \/ retryPassphrase \/ clearRemote \/ abortSetup

SpecRekey == InitRekey /\ [][NextRekey]_vars

\* ======================================================== properties
\* Reading the last operation: the device that ran it, what it started
\* from (tree0, st0, bucket0) and what it left (tree, st, last.res).
PullDone == last.op = "pull"

PushDone == last.op = "push"

Remote0(p) == last.bucket0[remoteKey(p)]

RemotePlain0(p) == Decrypt(last.dev, Remote0(p).body).plain

Present0(p) == p \in DOMAIN GetLocalFiles(last.tree0)

Tracked0(p) == p \in DOMAIN last.st0.files

Dirty0(p) == Sha256(last.tree0[p].data) # last.st0.files[p].hash

Newer0(p) == Remote0(p).lm > last.st0.files[p].uploaded

\* What the pull did with remote path p, as its result shows it.
Observed(p) ==
  IF p \in last.res.conflicts THEN "Conflict"
  ELSE IF p \in last.res.downloaded \cup last.res.errors THEN "Download"
  ELSE "Skip"

Untouched(p) == p \in DOMAIN tree[last.dev] /\ tree[last.dev][p] = last.tree0[p]

SidecarWritten(p) ==
  /\ ConflictPath(p, now) \in DOMAIN tree[last.dev]
  /\ tree[last.dev][ConflictPath(p, now)].data = RemotePlain0(p)

\* C1 (conflict preservation): a pull over a path that has a state record,
\* whose local fingerprint differs from the recorded hash and whose remote
\* object is strictly newer than the recorded upload instant, lists the path
\* as a conflict, leaves the local file as it was and, unless fetching the
\* remote object failed (the path is then in the errors), has written the
\* sidecar path.conflict.<now> holding the decrypted remote bytes.
C1_ConflictPreserved ==
  PullDone => \A p \in RemoteFiles(last.bucket0) :
    (Present0(p) /\ Tracked0(p) /\ Dirty0(p) /\ Newer0(p)) =>
      /\ p \in last.res.conflicts
      /\ Untouched(p)
      /\ p \notin last.res.errors => SidecarWritten(p)

C1_Witness ==
  /\ PullDone
  /\ \E p \in RemoteFiles(last.bucket0) :
       /\ Present0(p) /\ Tracked0(p) /\ Dirty0(p) /\ Newer0(p)
       /\ p \notin last.res.errors
       /\ SidecarWritten(p)
       /\ RemotePlain0(p) # last.tree0[p].data

\* C3 (decision table): for a remote path, local file absent => Download;
\* present, tracked and clean => Download if the remote object is strictly
\* newer than the recorded upload instant, else Skip; present, tracked and
\* locally changed => Conflict if the remote object is newer, else Skip.
C3_DecisionTable ==
  PullDone => \A p \in RemoteFiles(last.bucket0) :
    /\ ~Present0(p) => Observed(p) = "Download"
    /\ (Present0(p) /\ Tracked0(p) /\ ~Dirty0(p)) => Observed(p) = (IF Newer0(p) THEN "Download" ELSE "Skip")
    /\ (Present0(p) /\ Tracked0(p) /\ Dirty0(p)) => Observed(p) = (IF Newer0(p) THEN "Conflict" ELSE "Skip")

\* A pull that skipped a locally changed file whose remote object is not newer.
C3_Witness ==
  /\ PullDone
  /\ \E p \in RemoteFiles(last.bucket0) :
       Present0(p) /\ Tracked0(p) /\ Dirty0(p) /\ ~Newer0(p) /\ Observed(p) = "Skip"

Unsynced0(p) == ~Tracked0(p) \/ Dirty0(p)

Replaced(p) == p \notin DOMAIN tree[last.dev] \/ tree[last.dev][p].data # last.tree0[p].data

C2_NoSilentOverwrite ==
  (last.op # "none" /\ ~last.raced /\ ~NeedsConfirmation(last.st0, last.tree0)) =>
    \A p \in DOMAIN last.tree0 :
      (Unsynced0(p) /\ Replaced(p)) => (last.op = "pull" /\ p \in RemoteFiles(last.bucket0) /\ SidecarWritten(p))

\* C5 (change detection): whatever the two range orders, DetectChanges
\* names each path at most once, reports add exactly for the walked files
\* without a state record, modify exactly for the walked files whose
\* fingerprint differs from the recorded hash, delete exactly for the
\* records without a walked file, and nothing else.
ChangePaths(ch, a) == {ch[i].path : i \in {j \in 1..Len(ch) : ch[j].action = a}}

C5_DetectChanges ==
  \A d \in Devices :
    LET T == DOMAIN GetLocalFiles(tree[d])
        S == st[d].files
    IN \A lo \in SeqsOf(T), so \in SeqsOf(DOMAIN S) :
         LET ch == DetectChanges(tree[d], S, lo, so)
         IN /\ \A i, j \in 1..Len(ch) : ch[i].path = ch[j].path => i = j
            /\ \A i \in 1..Len(ch) : ch[i].action \in {"add", "modify", "delete"}
            /\ ChangePaths(ch, "add") = T \ DOMAIN S
            /\ ChangePaths(ch, "modify") = {p \in T \cap DOMAIN S : Sha256(tree[d][p].data) # S[p].hash}
            /\ ChangePaths(ch, "delete") = DOMAIN S \ T

\* One device has a modified tracked file while another has a record whose
\* file is gone.
C5_Witness ==
  \E d1, d2 \in Devices :
    /\ \E p \in DOMAIN GetLocalFiles(tree[d1]) \cap DOMAIN st[d1].files : Sha256(tree[d1][p].data) # st[d1].files[p].hash
    /\ DOMAIN st[d2].files \ DOMAIN GetLocalFiles(tree[d2]) # {}

\* C6 (push idempotence): after a push that reported no errors, a second
\* push of the same device over the unchanged tree, whatever its range
\* orders, reports nothing: no upload, no delete, no error.
C6_PushIdempotent ==
  (PushDone /\ last.res.errors = {}) =>
    \A lo \in SeqsOf(DOMAIN GetLocalFiles(tree[last.dev])), so \in SeqsOf(DOMAIN st[last.dev].files) :
      Push(last.dev, lo, so, {}, NoRace).res = EmptyResult

C6_Witness ==
  /\ PushDone /\ last.res.errors = {}
  /\ last.res.uploaded # {} /\ last.res.deleted # {}

C8_Convergence ==
  (PushDone /\ last.res.errors = {}) =>
    \A b \in Devices \ {last.dev} :
      (identity[b] = identity[last.dev] /\ last.res.uploaded \cap DOMAIN GetLocalFiles(tree[b]) = {}) =>
        \A order \in SeqsOf(RemoteFiles(bucket)) :
          LET e == Pull(b, order, {}, NoRace)
          IN \A p \in last.res.uploaded :
               /\ p \in DOMAIN e.tree
               /\ e.tree[p].data = last.tree0[p].data
               /\ ~last.raced => e.tree[p].data = tree[last.dev][p].data
               /\ p \in DOMAIN e.files
               /\ e.files[p].hash = Sha256(last.tree0[p].data)

\* A has pushed a file that B lacks although B holds a record for it.
C8_Witness ==
  /\ PushDone /\ last.res.errors = {}
  /\ \E b \in Devices \ {last.dev} :
       /\ last.res.uploaded \cap DOMAIN GetLocalFiles(tree[b]) = {}
       /\ last.res.uploaded \cap DOMAIN st[b].files # {}

\* C9 as claimed: right after a push that uploaded a path, or a pull that
\* downloaded it, the recorded hash is the fingerprint of the file in the
\* tree, and that is the fingerprint of the bytes that went to or came from
\* the bucket.
Transferred(p) == IF PushDone THEN bucket[remoteKey(p)] ELSE Remote0(p)

C9_HashMatchesTransfer ==
  \A p \in last.res.uploaded \cup last.res.downloaded :
    /\ st[last.dev].files[p].hash = Sha256(tree[last.dev][p].data)
    /\ st[last.dev].files[p].hash = Sha256(Decrypt(last.dev, Transferred(p).body).plain)

\* C10 (uploaded never decreases): no step lowers the uploaded instant of
\* a record that exists before and after it.
C10_UploadedMonotone ==
  [][\A d \in Devices : \A p \in DOMAIN st[d].files \cap DOMAIN st'[d].files :
       st'[d].files[p].uploaded >= st[d].files[p].uploaded]_vars

\* An operation has stamped an existing record with a later instant.
C10_Witness ==
  /\ last.op # "none"
  /\ \E p \in DOMAIN last.st0.files \cap DOMAIN st[last.dev].files :
       st[last.dev].files[p].uploaded > last.st0.files[p].uploaded

\* C11 (no delete propagation): a pull over a bucket that no longer holds
\* the object of a path the device tracks leaves the local file at that
\* path and the path's state record as they were.
Orphans0 == {p \in DOMAIN last.st0.files : p \notin RemoteFiles(last.bucket0)}

C11_NoDeletePropagation ==
  PullDone => \A p \in Orphans0 :
    /\ p \in DOMAIN st[last.dev].files
    /\ st[last.dev].files[p] = last.st0.files[p]
    /\ p \in DOMAIN last.tree0 => Untouched(p)

\* A pull that listed other objects while a tracked local file had none.
C11_Witness ==
  /\ PullDone
  /\ DOMAIN last.bucket0 # {}
  /\ \E p \in Orphans0 : p \in DOMAIN last.tree0 /\ Untouched(p)

\* C12 as claimed (symlink invisibility): a path of the tree that is a
\* symlink is not returned by the walker, and the last operation of the
\* device neither uploaded it nor wrote a download to it nor gave it a
\* state record.
Links(d) == {p \in DOMAIN tree[d] : tree[d][p].link}

C12_SymlinkInvisible ==
  \A d \in Devices : \A p \in Links(d) :
    /\ p \notin DOMAIN GetLocalFiles(tree[d])
    /\ last.dev = d =>
         /\ p \notin last.res.uploaded \cup last.res.downloaded
         /\ p \in DOMAIN st[d].files => (p \in DOMAIN last.st0.files /\ st[d].files[p] = last.st0.files[p])

\* C13 as claimed (sidecar invisibility): no path.conflict.<t> is returned
\* by the walker, reported by change detection, held by the bucket as an
\* uploaded object, or given a state record, on any device after any
\* sequence of pushes and pulls.
IsSidecar(p) == Len(p) > 1

C13_SidecarInvisible ==
  \A d \in Devices :
    /\ \A p \in DOMAIN GetLocalFiles(tree[d]) : ~IsSidecar(p)
    /\ \A p \in DOMAIN st[d].files : ~IsSidecar(p)
    /\ \A p \in RemoteFiles(bucket) : ~IsSidecar(p)
    /\ \A lo \in SeqsOf(DOMAIN GetLocalFiles(tree[d])), so \in SeqsOf(DOMAIN st[d].files) :
         LET ch == DetectChanges(tree[d], st[d].files, lo, so)
         IN \A i \in 1..Len(ch) : ~IsSidecar(ch[i].path)

\* C14 (fresh push): after a push that started with no state record and an
\* empty bucket and reported no errors, the bucket's keys are exactly the
\* walked paths with ".age" appended, each object decrypts to the bytes the
\* file held when the push read it, every walked path has a state record
\* and, unless another process rewrote the file during the push, the file
\* still holds those bytes and the record's hash is their fingerprint.
FreshPush == PushDone /\ DOMAIN last.st0.files = {} /\ DOMAIN last.bucket0 = {} /\ last.res.errors = {}

C14_FreshPush ==
  FreshPush =>
    LET walked == DOMAIN GetLocalFiles(last.tree0)
    IN /\ DOMAIN bucket = {<<p, ".age">> : p \in walked}
       /\ DOMAIN st[last.dev].files = walked
       /\ \A p \in walked :
            /\ Decrypt(last.dev, bucket[<<p, ".age">>].body) = [ok |-> TRUE, plain |-> last.tree0[p].data]
            /\ ~last.raced =>
                 /\ tree[last.dev][p].data = last.tree0[p].data
                 /\ st[last.dev].files[p].hash = Sha256(last.tree0[p].data)

\* A fresh push that uploaded a file below a synced directory.
C14_Witness ==
  /\ FreshPush /\ ~last.raced
  /\ \E p \in last.res.uploaded : p[1] \in DirFiles /\ <<p, ".age">> \in DOMAIN bucket

\* C15 as claimed (foreign objects ignored): objects whose key does not end
\* in ".age" are never downloaded, reported or written locally, and a pull
\* over a bucket that holds nothing else does what a pull over the empty
\* bucket does: it reports nothing and leaves the tree and the sync state,
\* its last_pull and last_sync included, as they were.
Foreign(b) == {k \in DOMAIN b : ~HasAgeSuffix(k)}

C15_ForeignIgnored ==
  PullDone =>
    /\ \A k \in Foreign(last.bucket0) :
         /\ localPath(k) \notin last.res.downloaded \cup last.res.conflicts \cup last.res.errors
         /\ localPath(k) \notin DOMAIN tree[last.dev] \cup DOMAIN st[last.dev].files
    /\ RemoteFiles(last.bucket0) = {} =>
         /\ last.res = EmptyResult
         /\ tree[last.dev] = last.tree0
         /\ st[last.dev] = last.st0

\* C16 (failed upload): a changed file whose upload failed during a push is
\* in the result's errors, its state record is what it was before the push
\* (none, if it had none), its object in the bucket is what it was, every
\* other change of the push was still attempted, and the push persisted
\* the state.
Changed0 ==
  {p \in DOMAIN GetLocalFiles(last.tree0) : p \in DOMAIN last.st0.files => Sha256(last.tree0[p].data) # last.st0.files[p].hash}

Gone0 == DOMAIN last.st0.files \ DOMAIN GetLocalFiles(last.tree0)

SameRecord(p) ==
  IF p \in DOMAIN last.st0.files
  THEN p \in DOMAIN st[last.dev].files /\ st[last.dev].files[p] = last.st0.files[p]
  ELSE p \notin DOMAIN st[last.dev].files

SameObject(p) ==
  IF remoteKey(p) \in DOMAIN last.bucket0
  THEN remoteKey(p) \in DOMAIN bucket /\ bucket[remoteKey(p)] = last.bucket0[remoteKey(p)]
  ELSE remoteKey(p) \notin DOMAIN bucket

C16_FailedUpload ==
  (PushDone /\ last.res.errors # {}) =>
    /\ last.res.errors \subseteq Changed0 \cup Gone0
    /\ \A p \in last.res.errors \cap Changed0 : SameRecord(p) /\ SameObject(p) /\ p \notin last.res.uploaded
    /\ (Changed0 \cup Gone0) \ last.res.errors = last.res.uploaded \cup last.res.deleted
    /\ last.res.uploaded = Changed0 \ last.res.errors
    /\ st[last.dev].lastPush /\ st[last.dev].lastSync

\* The upload of a tracked file failed and another change of the same push
\* went through.
C16_Witness ==
  /\ PushDone
  /\ last.res.deleted # {}
  /\ \E p \in last.res.errors \cap Changed0 : p \in DOMAIN last.st0.files /\ SameRecord(p)

\* C17 (failed download): a remote object whose download or decryption
\* failed during a pull is in the result's errors, the local file at its
\* path and the path's state record are what they were before the pull,
\* every other object the pull had to download was downloaded, and the pull
\* persisted the state.
Class0(p) == Classify([tree |-> last.tree0, files |-> last.st0.files], GetLocalFiles(last.tree0), p, Remote0(p))

SameFile(p) == IF p \in DOMAIN last.tree0 THEN Untouched(p) ELSE p \notin DOMAIN tree[last.dev]

RetryDeletes(p) ==
  \A lo \in SeqsOf(DOMAIN GetLocalFiles(tree[last.dev])), so \in SeqsOf(DOMAIN st[last.dev].files) :
    LET e == Push(last.dev, lo, so, {}, NoRace)
    IN p \in e.res.deleted /\ remoteKey(p) \notin DOMAIN e.bucket /\ p \notin DOMAIN e.files

C18_PushDeletes ==
  PushDone =>
    \A p \in Gone0 :
      /\ (p \in last.res.deleted) # (p \in last.res.errors)
      /\ (p \notin DOMAIN st[last.dev].files) <=> (p \in last.res.deleted)
      /\ p \in last.res.deleted => remoteKey(p) \notin DOMAIN bucket
      /\ p \in last.res.errors => SameRecord(p) /\ SameObject(p) /\ RetryDeletes(p)

\* A delete of an object that is in the bucket failed.
C18_Witness ==
  /\ PushDone
  /\ \E p \in Gone0 \cap last.res.errors : remoteKey(p) \in DOMAIN bucket /\ RetryDeletes(p)

\* C19 (key-match probe, decided outcomes): when the store answers and the
\* key file loads, the probe returns Ok if the bucket is empty or the
\* object it probed decrypts under the device's identity, and returns
\* KeyMismatch if every object of a non-empty bucket was written under
\* another identity; on an empty bucket it returns Ok whatever else fails.
ProbeDone == last.op = "probe"

ProbeRan == ProbeDone /\ ~last.listFails /\ ~last.dlFails /\ ~last.keyFails

OthersOnly(d, b) == b # EmptyMap /\ \A k \in DOMAIN b : b[k].body.rcpt # identity[d]

C19_ProbeOutcome ==
  /\ (ProbeDone /\ ~last.listFails /\ last.bucket0 = EmptyMap) => last.probe.outcome = "Ok"
  /\ ProbeRan =>
       /\ last.probe.outcome \in {"Ok", "KeyMismatch"}
       /\ last.bucket0 # EmptyMap => Len(last.probe.probed) = 1 /\ last.probe.probed[1] \in DOMAIN last.bucket0
       /\ (last.bucket0 # EmptyMap /\ Decrypt(last.dev, last.bucket0[last.probe.probed[1]].body).ok) => last.probe.outcome = "Ok"
       /\ OthersOnly(last.dev, last.bucket0) => last.probe.outcome = "KeyMismatch"

\* Two objects of another identity were listed, and the probe said so.
C19_Witness ==
  /\ ProbeRan
  /\ Cardinality(DOMAIN last.bucket0) >= 2
  /\ OthersOnly(last.dev, last.bucket0)
  /\ last.probe.outcome = "KeyMismatch"

\* C20 (key-match probe, storage failure), as stated: a probe whose
\* listing or download failed returns an outcome that is neither Ok nor
\* KeyMismatch.
ProbeFailed == ProbeDone /\ (last.listFails \/ (last.bucket0 # EmptyMap /\ last.dlFails))

C20_Inconclusive == ProbeFailed => last.probe.outcome \notin {"Ok", "KeyMismatch"}

\* C20 as the code has it: a probe whose listing or download failed
\* returns nil, the outcome of a successful match, and probed nothing.
C20_FailureIsOk == ProbeFailed => last.probe.outcome = "Ok" /\ last.probe.probed = << >>

\* The listing of a bucket written under another identity failed.
C20_Witness == ProbeFailed /\ last.listFails /\ OthersOnly(last.dev, last.bucket0) /\ last.probe.outcome = "Ok"

\* C21 (preview is read-only): a pull command run with --dry-run, which
\* calls PreviewPull and prints its report, leaves the working tree, the
\* sync state (records and the three instants), the bucket and the backup
\* directories exactly as they were.
CliDone == last.op \in {"pull", "dry run", "up to date", "aborted", "backup failed"} /\ last.dev = Newcomer

Unchanged == tree[last.dev] = last.tree0 /\ st[last.dev] = last.st0 /\ bucket = last.bucket0

C21_PreviewReadOnly == (CliDone /\ last.dryRun) => Unchanged /\ backups[last.dev] = last.backups0

\* A dry run on a first pull whose report announces an overwrite.
C21_Witness ==
  /\ CliDone /\ last.dryRun /\ last.op = "dry run"
  /\ ~HasState(last.st0) /\ last.preview.would_overwrite # {}
  /\ Unchanged

C23_BackupFailureAborts == (CliDone /\ last.op = "backup failed") => Unchanged /\ last.res = EmptyResult

\* The backup stopped after copying one of two files, with an overwrite due.
C23_Witness ==
  /\ CliDone /\ last.op = "backup failed"
  /\ last.preview.would_overwrite # {}
  /\ now \in DOMAIN backups[last.dev] /\ Cardinality(DOMAIN backups[last.dev][now]) = 1
  /\ Cardinality(DOMAIN GetLocalFiles(last.tree0)) = 2

\* C24 (first pull asks first): on a pull without --force by a device that
\* has no sync state and has syncable files, the engine's pull ran only if
\* the user chose one of the two "proceed" answers and --dry-run was not
\* given; otherwise (abort, dry run, nothing to do, failed backup) the
\* working tree and the sync state are unchanged.
FirstPull == CliDone /\ ~HasState(last.st0) /\ hasExistingClaudeFiles(last.tree0) /\ ~last.force

C24_FirstPullAsks ==
  FirstPull =>
    /\ last.op = "pull" => ~last.dryRun /\ last.choice \in {0, 1}
    /\ last.op # "pull" => Unchanged
    /\ (last.dryRun \/ last.choice = 2) => Unchanged /\ last.op # "pull"

\* The user aborted a first pull that would have overwritten a file.
C24_Witness == FirstPull /\ last.op = "aborted" /\ last.preview.would_overwrite # {} /\ Unchanged

\* C25 (backup content): after "backup, then pull" the backup directory of
\* the current second holds, for every path the walker returned before the
\* pull, the bytes that path had before the pull.
C25_BackupHoldsPrePull ==
  (FirstPull /\ last.op = "pull" /\ last.choice = 0) =>
    /\ now \in DOMAIN backups[last.dev]
    /\ \A p \in DOMAIN GetLocalFiles(last.tree0) :
         p \in DOMAIN backups[last.dev][now] /\ backups[last.dev][now][p] = last.tree0[p].data

\* Two files were backed up and the pull then replaced the bytes of one.
C25_Witness ==
  /\ FirstPull /\ last.op = "pull" /\ last.choice = 0
  /\ Cardinality(DOMAIN GetLocalFiles(last.tree0)) = 2
  /\ \E p \in DOMAIN GetLocalFiles(last.tree0) : p[1] \in DirFiles /\ tree[last.dev][p].data # last.tree0[p].data

\* C26 (encryption round trip): what an identity encrypts, whatever the
\* byte string and the file key, the same identity decrypts to exactly
\* that byte string.
Decrypted == last.op = "decrypted"

SameIdentity == NewEncryptor(last.keyFile[last.writer]).identity = NewEncryptor(last.keyFile[last.reader]).identity

C26_RoundTrip == (Decrypted /\ SameIdentity) => last.out.ok /\ last.out.plaintext = last.plaintext

\* A plaintext longer than one chunk came back from the device that wrote it.
C26_Witness ==
  /\ Decrypted /\ last.reader = last.writer
  /\ Len(last.plaintext) > ChunkSize /\ Len(last.ciphertext.chunks) = 2
  /\ last.out.plaintext = last.plaintext /\ last.ciphertext.chunks[1].data # SubSeq(last.plaintext, 1, ChunkSize)

CancelledRun == last.op \in {"push", "pull"} /\ last.after # {}

Recorded(p) == p \in DOMAIN st[last.dev].files /\ st[last.dev].files[p].hash = HashFile(tree[last.dev], p) /\ st[last.dev].files[p].uploaded = now

Stamped(p) == p \in DOMAIN st[last.dev].files /\ st[last.dev].files[p].uploaded = now

C30_SaveAtomic ==
  (last.op = "save" /\ last.pc = "crashed") =>
    /\ last.file \in {last.old, Marshal(last.new)}
    /\ LoadState(last.file).ok

\* C31 (bulk deletion): a DeleteBatch that returned no error has deleted
\* every key it was given, on either adapter.
C31_DeleteBatchAllOrError ==
  (last.op = "clear" /\ ~last.listFails /\ ~last.err) => \A k \in last.keys : k \notin DOMAIN bucket

\* C32 (keep remote settles the conflict): after the conflicts command has
\* resolved the only sidecar of a file with "keep remote", the file holds
\* the sidecar's bytes, the sidecar is gone, the path's state record holds
\* the fingerprint of those bytes, and a pull over the unchanged bucket
\* does not report the path as a conflict again.
ConflictsDone == last.op = "conflicts"

Found == {last.conflicts[i] : i \in 1..Len(last.conflicts)}

SidecarsOf0(p) == {c \in Found : OriginalPath(c) = p}

KeptRemote ==
  {c \in Found \ last.fails :
     \/ last.mode = "remote"
     \/ last.mode = "interactive" /\ \E i \in 1..Len(last.conflicts) :
          last.conflicts[i] = c /\ last.answers[i] = "r" /\ \A j \in 1..i : last.answers[j] # "q"}

C32_KeepRemoteSettles ==
  ConflictsDone => \A c \in KeptRemote :
    LET p == OriginalPath(c)
    IN SidecarsOf0(p) = {c} =>
         /\ p \in DOMAIN tree[last.dev] /\ tree[last.dev][p].data = last.tree0[c].data
         /\ c \notin DOMAIN tree[last.dev]
         /\ p \in DOMAIN st[last.dev].files /\ st[last.dev].files[p].hash = Sha256(last.tree0[c].data)
         /\ \A order \in SeqsOf(RemoteFiles(bucket)) : p \notin Pull(last.dev, order, {}, NoRace).res.conflicts

\* C39 (several sidecars, keep remote): after conflicts --keep remote
\* without a failing rename, a file that had several sidecars holds the
\* bytes of the sidecar with the largest timestamp, and none of its
\* sidecars is left.
Newest(S) == CHOOSE c \in S : \A x \in S : Timestamp(c) >= Timestamp(x)

C39_KeepRemoteNewest ==
  (ConflictsDone /\ last.mode = "remote" /\ last.fails = {}) =>
    \A p \in {OriginalPath(c) : c \in Found} :
      Cardinality(SidecarsOf0(p)) >= 2 =>
        /\ p \in DOMAIN tree[last.dev] /\ tree[last.dev][p].data = last.tree0[Newest(SidecarsOf0(p))].data
        /\ \A c \in SidecarsOf0(p) : c \notin DOMAIN tree[last.dev]

\* C33 (a conflict leaves the state alone): after a pull, every path it
\* reported as a conflict has the record it had before, no sidecar path
\* has a record, and the only records that are new or changed are those of
\* the paths the pull downloaded.
C33_ConflictLeavesState ==
  (PullDone /\ last.res.conflicts # {}) =>
    /\ \A p \in last.res.conflicts : SameRecord(p) /\ ConflictPath(p, now) \notin DOMAIN st[last.dev].files
    /\ \A q \in DOMAIN st[last.dev].files \ last.res.downloaded : SameRecord(q)

\* C34 (uploaded after a download): after a pull, the record of every path
\* it downloaded carries, as its uploaded instant, the last_modified of the
\* remote object in the listing the pull classified.
C34_UploadedIsRemoteTime ==
  PullDone => \A p \in last.res.downloaded :
    p \in DOMAIN st[last.dev].files /\ st[last.dev].files[p].uploaded = Remote0(p).lm

\* C35 (hash of the uploaded bytes): after a push, the record of every
\* uploaded path holds the fingerprint of the bytes that went to the
\* bucket, also when another process rewrote the file during the push; a
\* file that no longer holds the uploaded bytes is then reported as modify
\* by the next change detection.
UploadedPlain(p) == Decrypt(last.dev, bucket[remoteKey(p)].body).plain

C35_HashOfUploadedBytes ==
  PushDone => \A p \in last.res.uploaded :
    /\ st[last.dev].files[p].hash = Sha256(UploadedPlain(p))
    /\ (p \in DOMAIN tree[last.dev] /\ tree[last.dev][p].data # UploadedPlain(p)) =>
         \A lo \in SeqsOf(DOMAIN GetLocalFiles(tree[last.dev])), so \in SeqsOf(DOMAIN st[last.dev].files) :
           p \in ChangePaths(DetectChanges(tree[last.dev], st[last.dev].files, lo, so), "modify")

C37_DownloadNotPushedBack ==
  (PullDone /\ ~last.raced) =>
    \A lo \in SeqsOf(DOMAIN GetLocalFiles(tree[last.dev])), so \in SeqsOf(DOMAIN st[last.dev].files) :
      LET ch == DetectChanges(tree[last.dev], st[last.dev].files, lo, so)
          e == Push(last.dev, lo, so, {}, NoRace)
      IN \A p \in last.res.downloaded :
           /\ \A i \in 1..Len(ch) : ch[i].path # p
           /\ p \notin e.res.uploaded \cup e.res.deleted
           /\ e.bucket[remoteKey(p)] = bucket[remoteKey(p)]

\* A pull replaced the bytes of a tracked, locally unchanged file.
C37_Witness ==
  /\ PullDone /\ ~last.raced
  /\ \E p \in last.res.downloaded :
       /\ Present0(p) /\ Tracked0(p) /\ ~Dirty0(p)
       /\ tree[last.dev][p].data # last.tree0[p].data

\* C38 (no remote update is missed): after a pull during which another
\* device uploaded a new version of a path, a following pull of the same
\* device, whatever its range order, downloads that path if the local file
\* is unmodified (its fingerprint is the recorded hash) and does not hold
\* the new version yet.
Overlapped == PullDone /\ "pushed" \in DOMAIN last

Stale(p) ==
  /\ p \in DOMAIN GetLocalFiles(tree[last.dev])
  /\ p \in DOMAIN st[last.dev].files
  /\ HashFile(tree[last.dev], p) = st[last.dev].files[p].hash
  /\ tree[last.dev][p].data # UploadedPlain(p)

C38_NoMissedUpdate ==
  Overlapped => \A p \in last.pushed :
    Stale(p) => \A order \in SeqsOf(RemoteFiles(bucket)) : p \in Pull(last.dev, order, {}, NoRace).res.downloaded

\* C40 (re-entering the passphrase keeps an identity): on a device that
\* had a key file, once a key mismatch was answered with "retry" or
\* "abort" the key file is in place with the content it had before the
\* command, and the device is never without a key file.
C40_IdentityKept ==
  last.op = "rekey" =>
    /\ last.keyFile # NoKey
    /\ last.answer \in {"retry", "abort"} /\ last.pc \in {"prompt", "aborted", "failed"} => last.keyFile = last.keyFile0
====
